---------------------------- MODULE Spec2Model ----------------------------
(***************************************************************************)
(* Model of the IIS2MDC magnetometer driver (iis2mdc-rs).                  *)
(*                                                                         *)
(* src/src/register/main.rs declares the register map (Reg), the bit       *)
(* layouts of the registers (#[bitfield] structs), the multi-byte groups   *)
(* (#[named_register] structs) and the enumerated configuration values     *)
(* (#[derive(TryFrom)] enums).  The example programs under src/examples    *)
(* call the device facade (Iis2mdc::..._set / ..._get), which lives in the *)
(* crate's lib.rs; the facade operations are modelled from the             *)
(* specification (section 4.3), the rest from the sources.                 *)
(*                                                                         *)
(* Four specifications over one set of variables:                          *)
(*   SpecCodec    the register codec as pure functions, inputs drawn from  *)
(*                bounded sets (every byte 0..255 for 8-bit layouts);      *)
(*   SpecCall     one facade call against a device whose register file     *)
(*                holds one arbitrary byte;                                *)
(*   Spec         the facade calls of a driver handle against a device     *)
(*                register file, with bus failures and the hardware's own  *)
(*                register changes (soft-reset auto clear, new samples);   *)
(*   SpecExample  the main functions of the example programs (polling and  *)
(*                self test) driving the facade.                           *)
(***************************************************************************)
EXTENDS Integers, Sequences, FiniteSets, TLC

VARIABLES
    order,      \* build feature bit_order_msb: "Lsb" (default) or "Msb"
    debug,      \* build profile: TRUE when debug assertions are compiled in
    \* ---- codec harness (SpecCodec) ----
    cKind,      \* "layout" | "enum_variant" | "enum_code" | "group": what is exercised
    cL,         \* layout / enum / group under test
    cIn,        \* input: register bits (layout), variant or code (enum), 6 bytes (group)
    cPc,        \* the codec calls made so far, e.g. <<"from_bits", "set", "into_bits">>
    cLay,       \* current layout value (field name -> raw field bits)
    cPrev,      \* layout value before the last field set
    cSet,       \* last field set: <<field, value>>
    cOut,       \* result: encoded bits, decoded enum result or decoded triple
    \* ---- device and driver handle (Spec, SpecCall) ----
    dev,        \* the device's register file: address -> byte
    pc,         \* position of the running facade call: "idle" | "read" | "write" |
                \* "fs_rdy" | "fs_raw" | "done"
    op,         \* the facade operation being executed
    arg,        \* its argument
    buf,        \* bytes the call has read from the bus
    result,     \* what the call returns
    bus,        \* bus transactions the call has issued, in order
    left,       \* facade calls the harness may still start
    rstTrack,   \* history of the soft-reset protocol: "none" | "set" | "seen1" | "seen0"
    failed,     \* history: the setter whose read phase failed most recently, or "none"
    \* ---- example programs (SpecExample) ----
    prog,       \* the example program running: "read_data_polling" | "self_test"
    xpc,        \* position of main: the label of the statement it is at
    id,         \* what device_id_get returned to main
    pass,       \* iteration of the self-test example's outer loop, from 1
    idx,        \* `i` of main: samples collected in the running phase
    magnetic_m_g, \* the samples collected, in mG
    media,      \* per-axis average without self test
    mediast,    \* per-axis average with self test
    passed      \* per-axis verdict of the last pass

codecVars  == <<cKind, cL, cIn, cPc, cLay, cPrev, cSet, cOut>>
buildVars  == <<order, debug>>
exVars     == <<prog, xpc, id, pass, idx, magnetic_m_g, media, mediast, passed>>
facadeVars == <<dev, pc, op, arg, buf, result, bus, left, rstTrack, failed>>

\* no example program is running
ExampleIdle ==
    /\ prog = "none"
    /\ xpc = "none"
    /\ id = [kind |-> "None"]
    /\ pass = 0
    /\ idx = 0
    /\ magnetic_m_g = <<>>
    /\ media = <<>>
    /\ mediast = <<>>
    /\ passed = <<>>

Pow2(n) == 2 ^ n

Byte == 0 .. 255

(***************************************************************************)
(* Register address map: enum Reg, #[repr(u8)].                            *)
(***************************************************************************)
\* the address map with OutxHReg and OutyLReg exchanged
Reg_outx_h_outy_l_swapped ==
    [ OffsetXRegL |-> 69,  OffsetXRegH |-> 70,
      OffsetYRegL |-> 71,  OffsetYRegH |-> 72,
      OffsetZRegL |-> 73,  OffsetZRegH |-> 74,
      WhoAmI      |-> 79,
      CfgRegA     |-> 96,  CfgRegB     |-> 97,  CfgRegC |-> 98,
      IntCtrlReg  |-> 99,  IntSourceReg |-> 100,
      IntThsLReg  |-> 101, IntThsHReg  |-> 102,
      StatusReg   |-> 103,
      OutxLReg    |-> 104, OutxHReg    |-> 106,
      OutyLReg    |-> 105, OutyHReg    |-> 107,
      OutzLReg    |-> 108, OutzHReg    |-> 109,
      TempOutLReg |-> 110, TempOutHReg |-> 111 ]

\* the address map with WhoAmI one address too low
Reg_whoami_off_by_one ==
    [ OffsetXRegL |-> 69,  OffsetXRegH |-> 70,
      OffsetYRegL |-> 71,  OffsetYRegH |-> 72,
      OffsetZRegL |-> 73,  OffsetZRegH |-> 74,
      WhoAmI      |-> 78,
      CfgRegA     |-> 96,  CfgRegB     |-> 97,  CfgRegC |-> 98,
      IntCtrlReg  |-> 99,  IntSourceReg |-> 100,
      IntThsLReg  |-> 101, IntThsHReg  |-> 102,
      StatusReg   |-> 103,
      OutxLReg    |-> 104, OutxHReg    |-> 105,
      OutyLReg    |-> 106, OutyHReg    |-> 107,
      OutzLReg    |-> 108, OutzHReg    |-> 109,
      TempOutLReg |-> 110, TempOutHReg |-> 111 ]

Reg ==
    [ OffsetXRegL |-> 69,  OffsetXRegH |-> 70,
      OffsetYRegL |-> 71,  OffsetYRegH |-> 72,
      OffsetZRegL |-> 73,  OffsetZRegH |-> 74,
      WhoAmI      |-> 79,
      CfgRegA     |-> 96,  CfgRegB     |-> 97,  CfgRegC |-> 98,
      IntCtrlReg  |-> 99,  IntSourceReg |-> 100,
      IntThsLReg  |-> 101, IntThsHReg  |-> 102,
      StatusReg   |-> 103,
      OutxLReg    |-> 104, OutxHReg    |-> 105,
      OutyLReg    |-> 106, OutyHReg    |-> 107,
      OutzLReg    |-> 108, OutzHReg    |-> 109,
      TempOutLReg |-> 110, TempOutHReg |-> 111 ]

RegNames == DOMAIN Reg
Addrs    == { Reg[n] : n \in RegNames }

(***************************************************************************)
(* Bit layouts.  One entry per #[bits(..)] field, in declaration order.    *)
(* A field without `default` defaults to 0; `access = RO` removes the      *)
(* setter.                                                                 *)
(***************************************************************************)
F(n, b, d, a, t) == [name |-> n, bits |-> b, default |-> d, access |-> a, ty |-> t]

\* CfgRegA with soft_rst and reboot declared in the opposite order
CfgRegA_rst_reboot_swapped ==
    << F("md", 2, 3, "RW", "u8"),          F("odr", 2, 0, "RW", "u8"),
       F("lp", 1, 0, "RW", "u8"),          F("reboot", 1, 0, "RW", "u8"),
       F("soft_rst", 1, 0, "RW", "u8"),    F("comp_temp_en", 1, 0, "RW", "u8") >>

CfgRegA ==
    << F("md", 2, 3, "RW", "u8"),          F("odr", 2, 0, "RW", "u8"),
       F("lp", 1, 0, "RW", "u8"),          F("soft_rst", 1, 0, "RW", "u8"),
       F("reboot", 1, 0, "RW", "u8"),      F("comp_temp_en", 1, 0, "RW", "u8") >>

CfgRegB ==
    << F("lpf", 1, 0, "RW", "u8"),         F("set_rst", 2, 0, "RW", "u8"),
       F("int_on_dataoff", 1, 0, "RW", "u8"),
       F("off_canc_one_shot", 1, 0, "RW", "u8"),
       F("not_used_01", 3, 0, "RO", "u8") >>

CfgRegC ==
    << F("drdy_on_pin", 1, 0, "RW", "u8"), F("self_test", 1, 0, "RW", "u8"),
       F("not_used_01", 1, 0, "RO", "u8"), F("ble", 1, 0, "RW", "u8"),
       F("bdu", 1, 0, "RW", "u8"),         F("i2c_dis", 1, 0, "RW", "u8"),
       F("int_on_pin", 1, 0, "RW", "u8"),  F("not_used_02", 1, 0, "RO", "u8") >>

IntCtrlReg ==
    << F("ien", 1, 0, "RW", "u8"),         F("iel", 1, 0, "RW", "u8"),
       F("iea", 1, 0, "RW", "u8"),         F("not_used_01", 2, 0, "RO", "u8"),
       F("zien", 1, 1, "RW", "u8"),        F("yien", 1, 1, "RW", "u8"),
       F("xien", 1, 1, "RW", "u8") >>

IntSourceReg ==
    << F("int", 1, 0, "RO", "u8"),         F("mroi", 1, 0, "RO", "u8"),
       F("n_th_s_z", 1, 0, "RO", "u8"),    F("n_th_s_y", 1, 0, "RO", "u8"),
       F("n_th_s_x", 1, 0, "RO", "u8"),    F("p_th_s_z", 1, 0, "RO", "u8"),
       F("p_th_s_y", 1, 0, "RO", "u8"),    F("p_th_s_x", 1, 0, "RO", "u8") >>

StatusReg ==
    << F("xda", 1, 0, "RO", "u8"),         F("yda", 1, 0, "RO", "u8"),
       F("zda", 1, 0, "RO", "u8"),         F("zyxda", 1, 0, "RO", "u8"),
       F("xor", 1, 0, "RO", "u8"),         F("yor", 1, 0, "RO", "u8"),
       F("zor", 1, 0, "RO", "u8"),         F("zyxor", 1, 0, "RO", "u8") >>

TempOutReg == << F("temp_out", 16, 0, "RO", "i16") >>

IntThsReg  == << F("int_ths", 16, 0, "RW", "i16") >>

Layouts8  == {"CfgRegA", "CfgRegB", "CfgRegC", "IntCtrlReg", "IntSourceReg", "StatusReg"}
Layouts16 == {"TempOutReg", "IntThsReg"}
Layouts   == Layouts8 \cup Layouts16

Fields(L) ==
    CASE L = "CfgRegA"      -> CfgRegA
      [] L = "CfgRegB"      -> CfgRegB
      [] L = "CfgRegC"      -> CfgRegC
      [] L = "IntCtrlReg"   -> IntCtrlReg
      [] L = "IntSourceReg" -> IntSourceReg
      [] L = "StatusReg"    -> StatusReg
      [] L = "TempOutReg"   -> TempOutReg
      [] L = "IntThsReg"    -> IntThsReg

\* CfgRegA registered at the address of CfgRegB
LayoutAddr_cfg_a_at_cfg_b(L) ==
    CASE L = "CfgRegA"      -> Reg.CfgRegB
      [] L = "CfgRegB"      -> Reg.CfgRegB
      [] L = "CfgRegC"      -> Reg.CfgRegC
      [] L = "IntCtrlReg"   -> Reg.IntCtrlReg
      [] L = "IntSourceReg" -> Reg.IntSourceReg
      [] L = "StatusReg"    -> Reg.StatusReg
      [] L = "TempOutReg"   -> Reg.TempOutLReg
      [] L = "IntThsReg"    -> Reg.IntThsLReg

\* #[register(address = Reg::X, ...)]: the address the layout is read from / written to
LayoutAddr(L) ==
    CASE L = "CfgRegA"      -> Reg.CfgRegA
      [] L = "CfgRegB"      -> Reg.CfgRegB
      [] L = "CfgRegC"      -> Reg.CfgRegC
      [] L = "IntCtrlReg"   -> Reg.IntCtrlReg
      [] L = "IntSourceReg" -> Reg.IntSourceReg
      [] L = "StatusReg"    -> Reg.StatusReg
      [] L = "TempOutReg"   -> Reg.TempOutLReg
      [] L = "IntThsReg"    -> Reg.IntThsLReg

\* every layout taken to be one byte wide
Width_u8(L) == 8

\* bitfield(u8, ..) / bitfield(u16, ..): width of the underlying integer
Width(L) == IF L \in Layouts16 THEN 16 ELSE 8

FieldNames(L) == { Fields(L)[i].name : i \in DOMAIN Fields(L) }
FieldIdx(L, f) == CHOOSE i \in DOMAIN Fields(L) : Fields(L)[i].name = f
Field(L, f)    == Fields(L)[FieldIdx(L, f)]
RWFields(L)    == { f \in FieldNames(L) : Field(L, f).access = "RW" }

RECURSIVE BitsUpTo(_, _)
BitsUpTo(L, i) == IF i = 0 THEN 0 ELSE Fields(L)[i].bits + BitsUpTo(L, i - 1)

\* Msb order computed as if every field were one bit wide
Offset_msb_unit_width(L, ord, f) ==
    LET i == FieldIdx(L, f)
    IN  IF ord = "Lsb" THEN BitsUpTo(L, i - 1)
                       ELSE Width(L) - i

(***************************************************************************)
(* Bit offset of a field.  order = Lsb: the first declared field sits at   *)
(* bit 0; order = Msb: the first declared field sits at the top bits.      *)
(***************************************************************************)
Offset(L, ord, f) ==
    LET i == FieldIdx(L, f)
    IN  IF ord = "Lsb" THEN BitsUpTo(L, i - 1)
                       ELSE Width(L) - BitsUpTo(L, i)

Mask(L, f) == Pow2(Field(L, f).bits) - 1

\* two's-complement reading of a 16-bit pattern (u16 as i16)
S16(u) == IF u >= 32768 THEN u - 65536 ELSE u
\* i16 as u16
U16(v) == v % 65536

(***************************************************************************)
(* The generated codec of a #[bitfield] struct.                            *)
(*   new()            every field at its declared default                  *)
(*   from_bits(bits)  every field, read-only ones included, takes the      *)
(*                    corresponding bits of the input                      *)
(*   into_bits()      packs every field at its offset                      *)
(*   f()              field getter (sign-extended for an i16 field)        *)
(*   with_f / set_f   field setter: debug_assert!(value in bounds), then   *)
(*                    stores value & mask                                  *)
(***************************************************************************)
\* new() ignoring the declared defaults
new_zero(L) == [ f \in { Fields(L)[i].name : i \in DOMAIN Fields(L) } |-> 0 ]

new(L) == [ f \in FieldNames(L) |-> Field(L, f).default ]

\* from_bits substituting the declared default for read-only fields
from_bits_ro_default(L, ord, bits) ==
    [ f \in FieldNames(L) |->
        IF Field(L, f).access = "RO" THEN Field(L, f).default
        ELSE (bits \div Pow2(Offset(L, ord, f))) % Pow2(Field(L, f).bits) ]

from_bits(L, ord, bits) ==
    [ f \in FieldNames(L) |-> (bits \div Pow2(Offset(L, ord, f))) % Pow2(Field(L, f).bits) ]

RECURSIVE PackUpTo(_, _, _, _)
PackUpTo(L, ord, lay, i) ==
    IF i = 0 THEN 0
    ELSE LET f == Fields(L)[i].name
         IN  lay[f] * Pow2(Offset(L, ord, f)) + PackUpTo(L, ord, lay, i - 1)

\* into_bits writing the declared default into read-only fields
into_bits_ro_default(L, ord, lay) ==
    PackUpTo(L, ord,
             [ f \in FieldNames(L) |-> IF Field(L, f).access = "RO" THEN Field(L, f).default
                                                                  ELSE lay[f] ],
             Len(Fields(L)))

into_bits(L, ord, lay) == PackUpTo(L, ord, lay, Len(Fields(L)))

field_get(L, lay, f) == IF Field(L, f).ty = "i16" THEN S16(lay[f]) ELSE lay[f]

\* the setter's bounds check (debug_assert!): the value has no bit outside the mask
in_bounds(L, f, v) == IF Field(L, f).ty = "i16" THEN TRUE ELSE v <= Mask(L, f)

\* the setter without the `& mask`
with_field_nomask(L, lay, f, v) == [lay EXCEPT ![f] = v]

with_field(L, lay, f, v) == [lay EXCEPT ![f] = v % Pow2(Field(L, f).bits)]

\* what a setter call does in a given build: TRUE when it panics
set_panics(dbg, L, f, v) == dbg /\ ~in_bounds(L, f, v)

(***************************************************************************)
(* Register bytes on the bus: a layout is transferred least-significant    *)
(* byte first (from_le_bytes / to_le_bytes).                               *)
(***************************************************************************)
from_le_bytes(bs) == IF Len(bs) = 1 THEN bs[1] ELSE bs[1] + 256 * bs[2]
to_le_bytes(L, bits) == IF Width(L) = 8 THEN <<bits>> ELSE <<bits % 256, bits \div 256>>

(***************************************************************************)
(* Three-axis groups (#[named_register] OffsetXYZ, OutXYZ): fields x, y, z *)
(* of type i16 in declaration order, each two bytes, low byte first.       *)
(***************************************************************************)
Groups == {"OffsetXYZ", "OutXYZ"}
GroupAddr(G) == IF G = "OffsetXYZ" THEN Reg.OffsetXRegL ELSE Reg.OutxLReg

\* the three axes read most-significant byte first
xyz_from_be_bytes(bs) ==
    << S16(bs[2] + 256 * bs[1]), S16(bs[4] + 256 * bs[3]), S16(bs[6] + 256 * bs[5]) >>

xyz_from_le_bytes(bs) ==
    << S16(bs[1] + 256 * bs[2]), S16(bs[3] + 256 * bs[4]), S16(bs[5] + 256 * bs[6]) >>

\* the three axes written most-significant byte first
xyz_to_be_bytes(v) ==
    << U16(v[1]) \div 256, U16(v[1]) % 256,
       U16(v[2]) \div 256, U16(v[2]) % 256,
       U16(v[3]) \div 256, U16(v[3]) % 256 >>

xyz_to_le_bytes(v) ==
    << U16(v[1]) % 256, U16(v[1]) \div 256,
       U16(v[2]) % 256, U16(v[2]) \div 256,
       U16(v[3]) % 256, U16(v[3]) \div 256 >>

(***************************************************************************)
(* Enumerated configuration values: #[repr(u8)] enums deriving TryFrom     *)
(* with #[try_from(repr)].  Codes(E) are the declared discriminants.       *)
(***************************************************************************)
\* Md with the discriminants of ContinuousMode and SingleTrigger exchanged
Md_continuous_single_swapped == [ContinuousMode |-> 1, SingleTrigger |-> 0, PowerDown |-> 2]

Md           == [ContinuousMode |-> 0, SingleTrigger |-> 1, PowerDown |-> 2]
Odr          == [_10hz |-> 0, _20hz |-> 1, _50hz |-> 2, _100hz |-> 3]
Lp           == [HighResolution |-> 0, LowPower |-> 1]
Lpf          == [OdrDiv2 |-> 0, OdrDiv4 |-> 1]
SetRst       == [SetSensOdrDiv63 |-> 0, SensOffCancEveryOdr |-> 1, SetSensOnlyAtPowerOn |-> 2]
Ble          == [LsbAtLowAdd |-> 0, MsbAtLowAdd |-> 1]
IntOnDataOff == [CheckBefore |-> 0, CheckAfter |-> 1]
I2cDis       == [Enable |-> 0, Disable |-> 1]

Enums == {"Md", "Odr", "Lp", "Lpf", "SetRst", "Ble", "IntOnDataOff", "I2cDis"}

Enum(E) ==
    CASE E = "Md"           -> Md
      [] E = "Odr"          -> Odr
      [] E = "Lp"           -> Lp
      [] E = "Lpf"          -> Lpf
      [] E = "SetRst"       -> SetRst
      [] E = "Ble"          -> Ble
      [] E = "IntOnDataOff" -> IntOnDataOff
      [] E = "I2cDis"       -> I2cDis

Variants(E) == DOMAIN Enum(E)

\* `variant as u8`
as_u8(E, v) == Enum(E)[v]

\* TryFrom followed by unwrap_or_default: an undeclared code yields the #[default] variant
try_from_or_default(E, code) ==
    IF \E v \in Variants(E) : Enum(E)[v] = code
    THEN [kind |-> "Ok", val |-> CHOOSE v \in Variants(E) : Enum(E)[v] = code]
    ELSE [kind |-> "Ok", val |-> CHOOSE v \in Variants(E) : Enum(E)[v] = 0]

\* TryFrom<u8>: Ok(variant) for a declared discriminant, Err otherwise
try_from(E, code) ==
    IF \E v \in Variants(E) : Enum(E)[v] = code
    THEN [kind |-> "Ok",  val |-> CHOOSE v \in Variants(E) : Enum(E)[v] = code]
    ELSE [kind |-> "Err", err |-> [type |-> "Decode", code |-> code]]


(***************************************************************************)
(* Codec harness: the codec functions applied to inputs drawn from bounded *)
(* sets.  cPc is the list of codec calls made so far.                      *)
(***************************************************************************)
\* how many bits beyond a field's width the values handed to a setter may have
ExtraBits == 1

WordSamples == {0, 1, 255, 256, 32767, 32768, 65520, 65535}
S16Samples  == {-32768, -16, -1, 0, 1, 16, 32767}
ByteSamples == {0, 127, 128, 255}

\* six-byte bursts: every combination of the sample bytes, and the documented example
GroupInputs == [1 .. 6 -> ByteSamples] \cup {<<16, 0, 32, 0, 240, 255>>}

\* values a caller may hand to the setter of field f (u8 / i16 arguments)
SetValues(L, f) ==
    IF Field(L, f).ty = "i16" THEN S16Samples
    ELSE { v \in Byte : v < Pow2(Field(L, f).bits + ExtraBits) }

NoLay == [none |-> TRUE]

InitBuild ==
    /\ order \in {"Lsb", "Msb"}
    /\ debug \in BOOLEAN

CodecIdle ==
    /\ cKind = "none"
    /\ cL = "none"
    /\ cIn = 0
    /\ cPc = <<>>
    /\ cLay = NoLay
    /\ cPrev = NoLay
    /\ cSet = <<>>
    /\ cOut = <<>>

\* new() takes no input: explored once per layout, from input 0
CodecNew ==
    /\ cKind = "layout"
    /\ cPc = <<>>
    /\ cIn = 0
    /\ cLay' = new(cL)
    /\ cPc' = <<"new">>
    /\ UNCHANGED <<buildVars, exVars, facadeVars, cKind, cL, cIn, cPrev, cSet, cOut>>

CodecFromBits ==
    /\ cKind = "layout"
    /\ cPc = <<>>
    /\ cLay' = from_bits(cL, order, cIn)
    /\ cPc' = <<"from_bits">>
    /\ UNCHANGED <<buildVars, exVars, facadeVars, cKind, cL, cIn, cPrev, cSet, cOut>>

CodecSet ==
    /\ cKind = "layout"
    /\ cPc \in {<<"new">>, <<"from_bits">>}
    /\ \E f \in RWFields(cL) : \E v \in SetValues(cL, f) :
          /\ cSet' = <<f, v>>
          /\ cPrev' = cLay
          /\ IF set_panics(debug, cL, f, v)
             THEN /\ cPc' = Append(cPc, "panic")
                  /\ cLay' = cLay
             ELSE /\ cPc' = Append(cPc, "set")
                  /\ cLay' = with_field(cL, cLay, f, v)
    /\ UNCHANGED <<buildVars, exVars, facadeVars, cKind, cL, cIn, cOut>>

CodecIntoBits ==
    /\ cKind = "layout"
    /\ cPc \in {<<"new">>, <<"from_bits">>, <<"new", "set">>, <<"from_bits", "set">>}
    /\ cOut' = into_bits(cL, order, cLay)
    /\ cPc' = Append(cPc, "into_bits")
    /\ UNCHANGED <<buildVars, exVars, facadeVars, cKind, cL, cIn, cLay, cPrev, cSet>>

CodecReFromBits ==
    /\ cKind = "layout"
    /\ cPc # <<>>
    /\ cPc[Len(cPc)] = "into_bits"
    /\ cLay' = from_bits(cL, order, cOut)
    /\ cPc' = Append(cPc, "from_bits")
    /\ UNCHANGED <<buildVars, exVars, facadeVars, cKind, cL, cIn, cPrev, cSet, cOut>>

EnumAsU8 ==
    /\ cKind = "enum_variant"
    /\ cPc = <<>>
    /\ cOut' = as_u8(cL, cIn)
    /\ cPc' = <<"as_u8">>
    /\ UNCHANGED <<buildVars, exVars, facadeVars, cKind, cL, cIn, cLay, cPrev, cSet>>

EnumTryFrom ==
    /\ \/ cKind = "enum_code" /\ cPc = <<>> /\ cOut' = try_from(cL, cIn)
       \/ cKind = "enum_variant" /\ cPc = <<"as_u8">> /\ cOut' = try_from(cL, cOut)
    /\ cPc' = Append(cPc, "try_from")
    /\ UNCHANGED <<buildVars, exVars, facadeVars, cKind, cL, cIn, cLay, cPrev, cSet>>

\* the enumerated fields and their types (the getters of the facade)
EnumFields ==
    { <<"CfgRegA", "md", "Md">>,           <<"CfgRegA", "odr", "Odr">>,
      <<"CfgRegA", "lp", "Lp">>,           <<"CfgRegB", "lpf", "Lpf">>,
      <<"CfgRegB", "set_rst", "SetRst">>,  <<"CfgRegB", "int_on_dataoff", "IntOnDataOff">>,
      <<"CfgRegC", "ble", "Ble">>,         <<"CfgRegC", "i2c_dis", "I2cDis">> }

\* a getter's decode of an enumerated field: the field's bits through TryFrom
enum_field_get(E, raw) == try_from(E, raw)

CodecGetEnum ==
    /\ cKind = "layout"
    /\ cPc = <<"from_bits">>
    /\ \E t \in EnumFields :
          /\ t[1] = cL
          /\ cSet' = <<t[2], t[3]>>
          /\ cOut' = enum_field_get(t[3], field_get(cL, cLay, t[2]))
    /\ cPc' = <<"from_bits", "get_enum">>
    /\ UNCHANGED <<buildVars, exVars, facadeVars, cKind, cL, cIn, cLay, cPrev>>

GroupFromBytes ==
    /\ cKind = "group"
    /\ cPc = <<>>
    /\ cOut' = xyz_from_le_bytes(cIn)
    /\ cPc' = <<"from_le_bytes">>
    /\ UNCHANGED <<buildVars, exVars, facadeVars, cKind, cL, cIn, cLay, cPrev, cSet>>

\* the facade is not exercised by the codec harness
FacadeIdle ==
    /\ dev = [a \in Addrs |-> 0]
    /\ pc = "idle"
    /\ op = "none"
    /\ arg = 0
    /\ buf = <<>>
    /\ result = [kind |-> "None"]
    /\ bus = <<>>
    /\ left = 0
    /\ rstTrack = "none"
    /\ failed = "none"

InitCodec ==
    /\ InitBuild
    /\ FacadeIdle
    /\ ExampleIdle
    /\ cPc = <<>>
    /\ cLay = NoLay
    /\ cPrev = NoLay
    /\ cSet = <<>>
    /\ cOut = <<>>
    /\ \/ /\ cKind = "layout"
          /\ cL \in Layouts
          /\ cIn \in IF cL \in Layouts8 THEN Byte ELSE WordSamples
       \/ /\ cKind = "enum_variant"
          /\ cL \in Enums
          /\ cIn \in Variants(cL)
       \/ /\ cKind = "enum_code"
          /\ cL \in Enums
          /\ cIn \in Byte
       \/ /\ cKind = "group"
          /\ cL \in Groups
          /\ cIn \in GroupInputs

NextCodec ==
    \/ CodecNew
    \/ CodecFromBits
    \/ CodecSet
    \/ CodecIntoBits
    \/ CodecReFromBits
    \/ EnumAsU8
    \/ EnumTryFrom
    \/ CodecGetEnum
    \/ GroupFromBytes

vars == <<buildVars, codecVars, facadeVars, exVars>>

SpecCodec == InitCodec /\ [][NextCodec]_vars


(***************************************************************************)
(* Device facade (Iis2mdc).  The examples call these operations; their     *)
(* bodies are modelled from the specification, section 4.3:                *)
(*   getter  one bus read of the register, decode, return the field        *)
(*           (an enumerated field through TryFrom, failing on an           *)
(*           undeclared code);                                             *)
(*   setter  read the register, set the one field, write the byte back;    *)
(*   group   one burst of 6 bytes (three axes) read or written.            *)
(***************************************************************************)
Op(k, r, f, t) == [kind |-> k, reg |-> r, field |-> f, ty |-> t]

FacadeOps ==
    [ data_rate_set         |-> Op("rmw", "CfgRegA", "odr", "Odr"),
      operating_mode_set    |-> Op("rmw", "CfgRegA", "md", "Md"),
      set_rst_mode_set      |-> Op("rmw", "CfgRegB", "set_rst", "SetRst"),
      block_data_update_set |-> Op("rmw", "CfgRegC", "bdu", "u8"),
      offset_temp_comp_set  |-> Op("rmw", "CfgRegA", "comp_temp_en", "u8"),
      self_test_set         |-> Op("rmw", "CfgRegC", "self_test", "u8"),
      reset_set             |-> Op("rmw", "CfgRegA", "soft_rst", "u8"),
      data_rate_get         |-> Op("get", "CfgRegA", "odr", "Odr"),
      operating_mode_get    |-> Op("get", "CfgRegA", "md", "Md"),
      set_rst_mode_get      |-> Op("get", "CfgRegB", "set_rst", "SetRst"),
      block_data_update_get |-> Op("get", "CfgRegC", "bdu", "u8"),
      offset_temp_comp_get  |-> Op("get", "CfgRegA", "comp_temp_en", "u8"),
      self_test_get         |-> Op("get", "CfgRegC", "self_test", "u8"),
      reset_get             |-> Op("get", "CfgRegA", "soft_rst", "u8"),
      mag_data_ready_get    |-> Op("get", "StatusReg", "zyxda", "u8"),
      temperature_raw_get   |-> Op("get", "TempOutReg", "temp_out", "i16"),
      device_id_get         |-> Op("raw", "WhoAmI", "-", "u8"),
      magnetic_raw_get      |-> Op("xyz_get", "OutXYZ", "-", "i16"),
      mag_user_offset_get   |-> Op("xyz_get", "OffsetXYZ", "-", "i16"),
      mag_user_offset_set   |-> Op("xyz_set", "OffsetXYZ", "-", "i16"),
      flush_samples         |-> Op("example", "StatusReg", "zyxda", "u8") ]

OpNames == DOMAIN FacadeOps
RmwOps  == { o \in OpNames : FacadeOps[o].kind = "rmw" }

\* PROPERTY_DISABLED / PROPERTY_ENABLED, the u8 arguments the examples pass
PROPERTY_ENABLED  == 1
PROPERTY_DISABLED == 0

OffsetSamples ==
    { <<16, 32, -16>>, <<-32768, 32767, -1>>, <<-2, 256, 4660>> }

Args(o) ==
    LET d == FacadeOps[o]
    IN  CASE d.kind = "rmw" /\ d.ty \in Enums -> Variants(d.ty)
          [] d.kind = "rmw" /\ d.ty = "u8"    -> {PROPERTY_DISABLED, PROPERTY_ENABLED}
          [] d.kind = "xyz_set"               -> OffsetSamples
          [] OTHER                            -> {"-"}

\* first address and byte count of the operation's bus transfer
OpAddr(o) ==
    LET d == FacadeOps[o]
    IN  CASE d.kind \in {"xyz_get", "xyz_set"} -> GroupAddr(d.reg)
          [] d.kind = "raw"                    -> Reg.WhoAmI
          [] OTHER                             -> LayoutAddr(d.reg)

OpLen(o) ==
    LET d == FacadeOps[o]
    IN  CASE d.kind \in {"xyz_get", "xyz_set"} -> 6
          [] d.kind = "raw"                    -> 1
          [] OTHER                             -> Width(d.reg) \div 8

Ok(v)     == [kind |-> "Ok", val |-> v]
ErrBus(e) == [kind |-> "Err", err |-> [type |-> "Bus", e |-> e]]
NoResult  == [kind |-> "None"]

\* failures of the bus transport (the transport's own error values)
BusErrors == {"Nack", "Timeout"}

\* the value a setter stores for its argument: `variant as u8`, or the u8 itself
ArgCode(o, a) == IF FacadeOps[o].ty \in Enums THEN as_u8(FacadeOps[o].ty, a) ELSE a

\* getter: decode the register bytes and return the field
getter_result(o, ord, bytes) ==
    LET d   == FacadeOps[o]
        lay == from_bits(d.reg, ord, from_le_bytes(bytes))
        raw == field_get(d.reg, lay, d.field)
    IN  IF d.ty \in Enums THEN enum_field_get(d.ty, raw) ELSE Ok(raw)

\* setter: the bytes written back for the bytes read
rmw_bytes(o, ord, bytes, a) ==
    LET d   == FacadeOps[o]
        lay == from_bits(d.reg, ord, from_le_bytes(bytes))
    IN  to_le_bytes(d.reg, into_bits(d.reg, ord, with_field(d.reg, lay, d.field, ArgCode(o, a))))

DevBytes(a, n)    == [i \in 1 .. n |-> dev[a + i - 1]]
DevStore(a, data) == [x \in Addrs |-> IF x \in a .. a + Len(data) - 1 THEN data[x - a + 1] ELSE dev[x]]

\* one bus transaction as the transport saw it; err is the error it raised, "-" if none
Xfer(rw, a, n, e) == [rw |-> rw, addr |-> a, len |-> n, err |-> e]

(***************************************************************************)
(* The device.  Power-on / reset values of the configuration registers are *)
(* the layouts' declared defaults at the hardware's bit positions (least   *)
(* significant bit first): CfgRegA = 0x03, IntCtrlReg = 0xE0.              *)
(***************************************************************************)
IIS2MDC_ID == 64

ResetValue(a) ==
    CASE a = Reg.CfgRegA    -> into_bits("CfgRegA", "Lsb", new("CfgRegA"))
      [] a = Reg.CfgRegB    -> into_bits("CfgRegB", "Lsb", new("CfgRegB"))
      [] a = Reg.CfgRegC    -> into_bits("CfgRegC", "Lsb", new("CfgRegC"))
      [] a = Reg.IntCtrlReg -> into_bits("IntCtrlReg", "Lsb", new("IntCtrlReg"))
      [] a = Reg.WhoAmI     -> IIS2MDC_ID
      [] OTHER              -> 0

ConfigAddrs == {Reg.CfgRegA, Reg.CfgRegB, Reg.CfgRegC, Reg.IntCtrlReg}

\* SOFT_RST as the hardware sees it: bit 5 of the byte at CfgRegA
HwSoftRst(d) == (d[Reg.CfgRegA] \div 32) % 2

Samples == { [out |-> <<16, 0, 32, 0, 240, 255>>, temp |-> <<240, 255>>] }

\* the hardware completes a soft reset: configuration registers return to
\* their reset values, which clears SOFT_RST
HwResetDone ==
    /\ HwSoftRst(dev) = 1
    /\ dev' = [a \in Addrs |-> IF a \in ConfigAddrs THEN ResetValue(a) ELSE dev[a]]
    /\ UNCHANGED <<buildVars, exVars, codecVars, pc, op, arg, buf, result, bus, left, rstTrack, failed>>

\* the hardware latches a new sample: output and temperature registers change
\* and the data-available flags of StatusReg are raised
HwNewSample ==
    /\ \E s \in Samples :
          /\ DevBytes(Reg.OutxLReg, 6) # s.out
          /\ dev' = [a \in Addrs |->
                       IF a \in Reg.OutxLReg .. Reg.OutzHReg THEN s.out[a - Reg.OutxLReg + 1]
                       ELSE IF a \in {Reg.TempOutLReg, Reg.TempOutHReg}
                            THEN s.temp[a - Reg.TempOutLReg + 1]
                       ELSE IF a = Reg.StatusReg THEN 15 + 16 * (dev[a] \div 16)
                       ELSE dev[a]]
    /\ UNCHANGED <<buildVars, exVars, codecVars, pc, op, arg, buf, result, bus, left, rstTrack, failed>>

(***************************************************************************)
(* A facade call, one action per bus transaction.                          *)
(***************************************************************************)
Call ==
    /\ pc = "idle"
    /\ left > 0
    /\ \E o \in OpNames : \E a \in Args(o) :
          /\ op' = o
          /\ arg' = a
          /\ pc' = CASE FacadeOps[o].kind = "xyz_set" -> "write"
                     [] o = "flush_samples"           -> "fs_rdy"
                     [] OTHER                         -> "read"
    /\ left' = left - 1
    /\ buf' = <<>>
    /\ result' = NoResult
    /\ bus' = <<>>
    /\ UNCHANGED <<buildVars, exVars, codecVars, dev, rstTrack, failed>>

BusReadOk ==
    /\ pc = "read"
    /\ LET d     == FacadeOps[op]
           bytes == DevBytes(OpAddr(op), OpLen(op))
       IN  /\ bus' = Append(bus, Xfer("R", OpAddr(op), OpLen(op), "-"))
           /\ buf' = bytes
           /\ CASE d.kind = "rmw"     -> /\ pc' = "write"
                                         /\ result' = result
                [] d.kind = "get"     -> /\ pc' = "done"
                                         /\ result' = getter_result(op, order, bytes)
                [] d.kind = "raw"     -> /\ pc' = "done"
                                         /\ result' = Ok(bytes[1])
                [] d.kind = "xyz_get" -> /\ pc' = "done"
                                         /\ result' = Ok(xyz_from_le_bytes(bytes))
           /\ rstTrack' =
                 IF op = "reset_get" /\ result'.kind = "Ok"
                 THEN CASE rstTrack = "set" /\ result'.val = 1   -> "seen1"
                        [] rstTrack = "seen1" /\ result'.val = 0 -> "seen0"
                        [] OTHER                                 -> rstTrack
                 ELSE rstTrack
    /\ UNCHANGED <<buildVars, exVars, codecVars, dev, op, arg, left, failed>>

BusReadFail ==
    /\ pc = "read"
    /\ \E e \in BusErrors :
          /\ bus' = Append(bus, Xfer("R", OpAddr(op), OpLen(op), e))
          /\ result' = ErrBus(e)
    /\ pc' = "done"
    /\ failed' = IF op \in RmwOps THEN op ELSE failed
    /\ UNCHANGED <<buildVars, exVars, codecVars, dev, op, arg, buf, left, rstTrack>>

\* the bytes the running call writes
WriteData ==
    IF FacadeOps[op].kind = "rmw" THEN rmw_bytes(op, order, buf, arg)
                                  ELSE xyz_to_le_bytes(arg)

BusWriteOk ==
    /\ pc = "write"
    /\ bus' = Append(bus, Xfer("W", OpAddr(op), OpLen(op), "-"))
    /\ dev' = DevStore(OpAddr(op), WriteData)
    /\ result' = Ok("unit")
    /\ pc' = "done"
    /\ rstTrack' = IF op = "reset_set" /\ arg = PROPERTY_ENABLED THEN "set" ELSE rstTrack
    /\ UNCHANGED <<buildVars, exVars, codecVars, op, arg, buf, left, failed>>

BusWriteFail ==
    /\ pc = "write"
    /\ \E e \in BusErrors :
          /\ bus' = Append(bus, Xfer("W", OpAddr(op), OpLen(op), e))
          /\ result' = ErrBus(e)
    /\ pc' = "done"
    /\ UNCHANGED <<buildVars, exVars, codecVars, dev, op, arg, buf, left, rstTrack, failed>>

\* the call returns to its caller; the handle keeps nothing of it
Return ==
    /\ pc = "done"
    /\ pc' = "idle"
    /\ op' = "none"
    /\ arg' = 0
    /\ buf' = <<>>
    /\ result' = NoResult
    /\ bus' = <<>>
    /\ UNCHANGED <<buildVars, exVars, codecVars, dev, left, rstTrack, failed>>

(***************************************************************************)
(* flush_samples of the self-test example:                                 *)
(*     let rdy = s.mag_data_ready_get()?;                                  *)
(*     if rdy == 1 { let _ = s.magnetic_raw_get()?; }                      *)
(*     Ok(())                                                              *)
(***************************************************************************)
FlushRdyOk ==
    /\ pc = "fs_rdy"
    /\ LET bytes == DevBytes(OpAddr("mag_data_ready_get"), OpLen("mag_data_ready_get"))
           rdy   == getter_result("mag_data_ready_get", order, bytes)
       IN  /\ bus' = Append(bus, Xfer("R", OpAddr("mag_data_ready_get"),
                                      OpLen("mag_data_ready_get"), "-"))
           /\ buf' = bytes
           /\ IF rdy.val = 1
              THEN pc' = "fs_raw" /\ result' = result
              ELSE pc' = "done" /\ result' = Ok("unit")
    /\ UNCHANGED <<buildVars, exVars, codecVars, dev, op, arg, left, rstTrack, failed>>

FlushRawOk ==
    /\ pc = "fs_raw"
    /\ bus' = Append(bus, Xfer("R", OpAddr("magnetic_raw_get"), OpLen("magnetic_raw_get"), "-"))
    /\ buf' = DevBytes(OpAddr("magnetic_raw_get"), OpLen("magnetic_raw_get"))
    /\ result' = Ok("unit")
    /\ pc' = "done"
    /\ UNCHANGED <<buildVars, exVars, codecVars, dev, op, arg, left, rstTrack, failed>>

\* flush_samples discarding the error of a read (`let _ = ...;` without `?`)
FlushFail_swallowed ==
    /\ pc \in {"fs_rdy", "fs_raw"}
    /\ \E e \in BusErrors :
          bus' = Append(bus, IF pc = "fs_rdy"
                             THEN Xfer("R", OpAddr("mag_data_ready_get"),
                                       OpLen("mag_data_ready_get"), e)
                             ELSE Xfer("R", OpAddr("magnetic_raw_get"),
                                       OpLen("magnetic_raw_get"), e))
    /\ result' = Ok("unit")
    /\ pc' = "done"
    /\ UNCHANGED <<buildVars, exVars, codecVars, dev, op, arg, buf, left, rstTrack, failed>>

\* the `?` of either call: the error is returned as it is
FlushFail ==
    /\ pc \in {"fs_rdy", "fs_raw"}
    /\ \E e \in BusErrors :
          /\ bus' = Append(bus, IF pc = "fs_rdy"
                                THEN Xfer("R", OpAddr("mag_data_ready_get"),
                                          OpLen("mag_data_ready_get"), e)
                                ELSE Xfer("R", OpAddr("magnetic_raw_get"),
                                          OpLen("magnetic_raw_get"), e))
          /\ result' = ErrBus(e)
    /\ pc' = "done"
    /\ UNCHANGED <<buildVars, exVars, codecVars, dev, op, arg, buf, left, rstTrack, failed>>

\* calls a run of Spec may make
MaxCalls == 3

\* The facade hands the setters only values within the field widths (enum
\* discriminants, 0 / 1), so the setters' debug assertion never fires and the
\* build profile makes no difference to a facade call: it is fixed here.
InitFacadeBuild ==
    /\ order \in {"Lsb", "Msb"}
    /\ debug = FALSE

HandleIdle ==
    /\ pc = "idle"
    /\ op = "none"
    /\ arg = 0
    /\ buf = <<>>
    /\ result = NoResult
    /\ bus = <<>>
    /\ rstTrack = "none"
    /\ failed = "none"

\* Spec: the device after power-on, a handle making up to MaxCalls calls
Init ==
    /\ InitFacadeBuild
    /\ CodecIdle
    /\ HandleIdle
    /\ ExampleIdle
    /\ dev = [a \in Addrs |-> ResetValue(a)]
    /\ left = MaxCalls

\* SpecCall: one call against a device one of whose registers holds any byte
ArbRegs == {Reg.CfgRegA, Reg.CfgRegB, Reg.CfgRegC, Reg.StatusReg, Reg.WhoAmI}

InitCall ==
    /\ InitFacadeBuild
    /\ CodecIdle
    /\ HandleIdle
    /\ ExampleIdle
    /\ \E r \in ArbRegs : \E b \in Byte :
          dev = [a \in Addrs |-> IF a = r THEN b ELSE ResetValue(a)]
    /\ left = 1

Next ==
    \/ Call
    \/ BusReadOk
    \/ BusReadFail
    \/ BusWriteOk
    \/ BusWriteFail
    \/ Return
    \/ FlushRdyOk
    \/ FlushRawOk
    \/ FlushFail
    \/ HwResetDone
    \/ HwNewSample

Spec     == Init /\ [][Next]_vars
SpecCall == InitCall /\ [][Next]_vars

(***************************************************************************)
(* The example programs (src/examples): main of read_data_polling and of   *)
(* self_test; the embassy variants run the same statements with another    *)
(* UART.  Every facade call is followed by unwrap(), which panics on Err,  *)
(* except device_id_get, whose Err arm writes a message and goes on.       *)
(* f32 values are modelled as exact fractions <<numerator, denominator>>.  *)
(***************************************************************************)
SELF_TEST_SAMPLES == 50
ST_MIN_POS == 15
ST_MAX_POS == 500

RECURSIVE GCD(_, _)
GCD(a, b) == LET m == a  n == b IN IF n = 0 THEN m ELSE GCD(n, m % n)

Abs(v) == IF v < 0 THEN -v ELSE v

\* the fraction n / d (d > 0) in lowest terms
Rat(n, d) == LET g == GCD(Abs(n), d) IN <<n \div g, d \div g>>
RatSub(p, q) == Rat(p[1] * q[2] - q[1] * p[2], p[2] * q[2])
RatAbs(p)    == <<Abs(p[1]), p[2]>>
\* lo <= p <= hi for integers lo, hi
RatWithin(p, lo, hi) == lo * p[2] <= p[1] /\ p[1] <= hi * p[2]

Zero3 == << <<0, 1>>, <<0, 1>>, <<0, 1>> >>

\* iis2mdc_rs::from_lsb_to_mgauss: lsb * 1.5, kept as a number of half mG
from_lsb_to_mgauss(lsb) == <<3 * lsb, 2>>

\* [[0.; 3]; 50]
NoSamples == [j \in 1 .. SELF_TEST_SAMPLES |-> << <<0, 2>>, <<0, 2>>, <<0, 2>> >>]

RECURSIVE SumAxis(_, _, _)
\* magnetic_m_g[1][a] + ... + magnetic_m_g[j][a], in half mG
SumAxis(m, a, j) == IF j = 0 THEN 0 ELSE m[j][a][1] + SumAxis(m, a, j - 1)

\* (0..3).for_each(|i| { (0..SELF_TEST_SAMPLES).for_each(|j| acc[i] += m[j][i]);
\*                       acc[i] /= SELF_TEST_SAMPLES as f32; })
accumulate(acc, m) ==
    [a \in 1 .. 3 |->
        LET sum == SumAxis(m, a, SELF_TEST_SAMPLES)
        IN  Rat(2 * acc[a][1] + sum * acc[a][2], 2 * acc[a][2] * SELF_TEST_SAMPLES)]

\* a statement of main that calls the facade: the call, and the label that follows
S(o, a, n) == [op |-> o, arg |-> a, next |-> n]

ReadDataPollingMain ==
    [ device_id_get         |-> S("device_id_get", "-", "reset_set"),
      reset_set             |-> S("reset_set", PROPERTY_ENABLED, "reset_get"),
      reset_get             |-> S("reset_get", "-", "block_data_update_set"),
      block_data_update_set |-> S("block_data_update_set", PROPERTY_ENABLED, "data_rate_set"),
      data_rate_set         |-> S("data_rate_set", "_10hz", "set_rst_mode_set"),
      set_rst_mode_set      |-> S("set_rst_mode_set", "SensOffCancEveryOdr",
                                  "offset_temp_comp_set"),
      offset_temp_comp_set  |-> S("offset_temp_comp_set", PROPERTY_ENABLED,
                                  "operating_mode_set"),
      operating_mode_set    |-> S("operating_mode_set", "ContinuousMode", "mag_data_ready_get"),
      mag_data_ready_get    |-> S("mag_data_ready_get", "-", "magnetic_raw_get"),
      magnetic_raw_get      |-> S("magnetic_raw_get", "-", "temperature_raw_get"),
      temperature_raw_get   |-> S("temperature_raw_get", "-", "mag_data_ready_get") ]

SelfTestMain ==
    [ device_id_get         |-> S("device_id_get", "-", "reset_set"),
      reset_set             |-> S("reset_set", PROPERTY_ENABLED, "reset_get"),
      reset_get             |-> S("reset_get", "-", "block_data_update_set"),
      block_data_update_set |-> S("block_data_update_set", PROPERTY_ENABLED,
                                  "set_rst_mode_set"),
      set_rst_mode_set      |-> S("set_rst_mode_set", "SensOffCancEveryOdr",
                                  "offset_temp_comp_set"),
      offset_temp_comp_set  |-> S("offset_temp_comp_set", PROPERTY_ENABLED,
                                  "operating_mode_set"),
      operating_mode_set    |-> S("operating_mode_set", "ContinuousMode", "data_rate_set"),
      data_rate_set         |-> S("data_rate_set", "_100hz", "flush_samples_1"),
      flush_samples_1       |-> S("flush_samples", "-", "mag_data_ready_get_1"),
      mag_data_ready_get_1  |-> S("mag_data_ready_get", "-", "magnetic_raw_get_1"),
      magnetic_raw_get_1    |-> S("magnetic_raw_get", "-", "sum_media"),
      self_test_set         |-> S("self_test_set", PROPERTY_ENABLED, "flush_samples_2"),
      flush_samples_2       |-> S("flush_samples", "-", "mag_data_ready_get_2"),
      mag_data_ready_get_2  |-> S("mag_data_ready_get", "-", "magnetic_raw_get_2"),
      magnetic_raw_get_2    |-> S("magnetic_raw_get", "-", "sum_mediast"),
      operating_mode_set_pd |-> S("operating_mode_set", "PowerDown", "self_test_set_off"),
      self_test_set_off     |-> S("self_test_set", PROPERTY_DISABLED, "reset_set") ]

Main(p) == IF p = "self_test" THEN SelfTestMain ELSE ReadDataPollingMain

\* passes of the self-test example's outer loop that are explored
MaxPasses == 2

\* main is at a statement that calls the facade: the call starts
ExCall ==
    /\ xpc \in DOMAIN Main(prog)
    /\ pc = "idle"
    /\ op' = Main(prog)[xpc].op
    /\ arg' = Main(prog)[xpc].arg
    /\ pc' = IF Main(prog)[xpc].op = "flush_samples" THEN "fs_rdy" ELSE "read"
    /\ buf' = <<>>
    /\ result' = NoResult
    /\ bus' = <<>>
    /\ UNCHANGED <<buildVars, exVars, codecVars, dev, left, rstTrack, failed>>

\* the call has returned to main: the handle keeps nothing of it
ExHandleReturned ==
    /\ pc' = "idle"
    /\ op' = "none"
    /\ arg' = 0
    /\ buf' = <<>>
    /\ result' = NoResult
    /\ bus' = <<>>
    /\ UNCHANGED <<buildVars, codecVars, dev, left, rstTrack, failed>>

\* match sensor.device_id_get() {
\*     Ok(value) => { if value != iis2mdc_rs::IIS2MDC_ID { panic!("Invalid sensor ID") } }
\*     Err(e) => writeln!(tx, "An error occured while reading sensor ID: {e:?}").unwrap(),
\* }
ExDeviceId ==
    /\ xpc = "device_id_get"
    /\ pc = "done"
    /\ id' = result
    /\ xpc' = IF result.kind = "Ok" /\ result.val # IIS2MDC_ID
              THEN "panicked"
              ELSE Main(prog)[xpc].next
    /\ ExHandleReturned
    /\ UNCHANGED <<prog, pass, idx, magnetic_m_g, media, mediast, passed>>

\* .unwrap() of a call that returned Err
ExUnwrapPanics ==
    /\ xpc \in DOMAIN Main(prog) \ {"device_id_get"}
    /\ pc = "done"
    /\ result.kind = "Err"
    /\ xpc' = "panicked"
    /\ ExHandleReturned
    /\ UNCHANGED <<prog, id, pass, idx, magnetic_m_g, media, mediast, passed>>

\* loop { if sensor.reset_get().unwrap() == 0 { break; } }
ExResetPoll ==
    /\ xpc = "reset_get"
    /\ pc = "done"
    /\ result.kind = "Ok"
    /\ xpc' = IF result.val = 0 THEN Main(prog)[xpc].next ELSE xpc
    /\ ExHandleReturned
    /\ UNCHANGED <<prog, id, pass, idx, magnetic_m_g, media, mediast, passed>>

\* let rdy = sensor.mag_data_ready_get().unwrap(); if rdy == 1 { ... }
\* (self test: followed by `if i >= SELF_TEST_SAMPLES { break; }`)
ExDataReady ==
    /\ xpc \in DOMAIN Main(prog)
    /\ Main(prog)[xpc].op = "mag_data_ready_get"
    /\ pc = "done"
    /\ result.kind = "Ok"
    /\ xpc' = IF result.val = 1 THEN Main(prog)[xpc].next ELSE xpc
    /\ ExHandleReturned
    /\ UNCHANGED <<prog, id, pass, idx, magnetic_m_g, media, mediast, passed>>

\* self test: let raw_data = sensor.magnetic_raw_get().unwrap();
\*            magnetic_m_g[i][axis] = from_lsb_to_mgauss(raw_data[axis]); i += 1;
\*            if i >= SELF_TEST_SAMPLES { break; }
ExSample ==
    /\ prog = "self_test"
    /\ xpc \in DOMAIN Main(prog)
    /\ Main(prog)[xpc].op = "magnetic_raw_get"
    /\ pc = "done"
    /\ result.kind = "Ok"
    /\ magnetic_m_g' = [magnetic_m_g EXCEPT
                          ![idx + 1] = [a \in 1 .. 3 |-> from_lsb_to_mgauss(result.val[a])]]
    /\ idx' = idx + 1
    /\ xpc' = IF idx + 1 >= SELF_TEST_SAMPLES
              THEN Main(prog)[xpc].next
              ELSE IF xpc = "magnetic_raw_get_1" THEN "mag_data_ready_get_1"
                                                 ELSE "mag_data_ready_get_2"
    /\ ExHandleReturned
    /\ UNCHANGED <<prog, id, pass, media, mediast, passed>>

\* any other call that returned Ok: main goes on to the next statement;
\* `i` restarts at 0 after flush_samples, the outer loop starts over after
\* self_test_set(PROPERTY_DISABLED)
ExNextStatement ==
    /\ xpc \in DOMAIN Main(prog) \ {"device_id_get", "reset_get"}
    /\ Main(prog)[xpc].op # "mag_data_ready_get"
    /\ ~(prog = "self_test" /\ Main(prog)[xpc].op = "magnetic_raw_get")
    /\ pc = "done"
    /\ result.kind = "Ok"
    /\ idx' = IF Main(prog)[xpc].op = "flush_samples" THEN 0 ELSE idx
    /\ IF xpc = "self_test_set_off"
       THEN /\ pass' = pass + 1
            /\ xpc' = IF pass < MaxPasses THEN Main(prog)[xpc].next ELSE "stopped"
       ELSE /\ pass' = pass
            /\ xpc' = Main(prog)[xpc].next
    /\ ExHandleReturned
    /\ UNCHANGED <<prog, id, magnetic_m_g, media, mediast, passed>>

\* the average without self test: media[i] += magnetic_m_g[j][i]; media[i] /= 50
ExSumMedia ==
    /\ xpc = "sum_media"
    /\ media' = accumulate(media, magnetic_m_g)
    /\ xpc' = "self_test_set"
    /\ UNCHANGED <<buildVars, codecVars, facadeVars, prog, id, pass, idx, magnetic_m_g,
                   mediast, passed>>

\* the average with self test, and the verdict:
\*   let diff = (mediast[i] - media[i]).abs();
\*   if (ST_MIN_POS..=ST_MAX_POS).contains(&diff) { passed[i] = true; }
ExSumMediast ==
    /\ xpc = "sum_mediast"
    /\ mediast' = accumulate(mediast, magnetic_m_g)
    /\ passed' = [a \in 1 .. 3 |->
                    RatWithin(RatAbs(RatSub(mediast'[a], media[a])), ST_MIN_POS, ST_MAX_POS)]
    /\ xpc' = "operating_mode_set_pd"
    /\ UNCHANGED <<buildVars, codecVars, facadeVars, prog, id, pass, idx, magnetic_m_g, media>>

\* identity bytes the sensor at the bus address may answer with
WhoAmIValues == {IIS2MDC_ID, 65}

InitExample ==
    /\ InitFacadeBuild
    /\ CodecIdle
    /\ HandleIdle
    /\ left = 0
    /\ \E w \in WhoAmIValues :
          dev = [a \in Addrs |-> IF a = Reg.WhoAmI THEN w ELSE ResetValue(a)]
    /\ prog \in {"read_data_polling", "self_test"}
    /\ xpc = "device_id_get"
    /\ id = NoResult
    /\ pass = 1
    /\ idx = 0
    /\ magnetic_m_g = NoSamples
    /\ media = Zero3
    /\ mediast = Zero3
    /\ passed = <<FALSE, FALSE, FALSE>>

NextExample ==
    \/ ExCall
    \/ ExDeviceId
    \/ ExUnwrapPanics
    \/ ExResetPoll
    \/ ExDataReady
    \/ ExSample
    \/ ExNextStatement
    \/ ExSumMedia
    \/ ExSumMediast
    \/ BusReadOk
    \/ BusReadFail
    \/ BusWriteOk
    \/ BusWriteFail
    \/ FlushRdyOk
    \/ FlushRawOk
    \/ FlushFail
    \/ HwResetDone
    \/ HwNewSample

SpecExample == InitExample /\ [][NextExample]_vars

(***************************************************************************)
(* Claims about the codec (checked under SpecCodec).                       *)
(***************************************************************************)
\* bits of `bits` outside the `w` bits at offset `off`
Outside(bits, off, w) == <<bits % Pow2(off), bits \div Pow2(off + w)>>

\* C2: the 6 bytes b0..b5 of a three-axis burst decode to [x, y, z], each the
\* two's-complement 16-bit value with the low byte at the lower address; the
\* bytes [0x10, 0x00, 0x20, 0x00, 0xF0, 0xFF] decode to [16, 32, -16].
C2_BurstDecode ==
    (cKind = "group" /\ cPc = <<"from_le_bytes">>) =>
        /\ \A a \in 1 .. 3 :
              LET u == cIn[2 * a - 1] + 256 * cIn[2 * a]
              IN  /\ cOut[a] \in -32768 .. 32767
                  /\ cOut[a] = (IF u < 32768 THEN u ELSE u - 65536)
        /\ (cIn = <<16, 0, 32, 0, 240, 255>>) => (cOut = <<16, 32, -16>>)

C2_Witness ==
    /\ cKind = "group"
    /\ cL = "OutXYZ"
    /\ cPc = <<"from_le_bytes">>
    /\ cIn = <<16, 0, 32, 0, 240, 255>>
    /\ cOut = <<16, 32, -16>>

\* C4: for every 8-bit layout and every byte b, encode(decode(b)) = b in every
\* bit: read-write bits and read-only / not-used bits alike keep the decoded
\* value, never the declared default.
C4_EncodeDecode ==
    (cKind = "layout" /\ cL \in Layouts8 /\ cPc = <<"from_bits", "into_bits">>) =>
        cOut = cIn

C4_Witness ==
    /\ cKind = "layout"
    /\ cL = "CfgRegB"
    /\ order = "Lsb"
    /\ cPc = <<"from_bits", "into_bits">>
    /\ cIn = 229
    /\ cOut = 229

\* C5: for every read-write field f and value v that fits f's width, from any
\* layout value: set f to v, encode, decode gives a layout with f = v, and the
\* set leaves every other field as it was.
C5_SetRoundTrip ==
    (cKind = "layout" /\ Len(cPc) >= 2 /\ cPc[2] = "set") =>
        LET f == cSet[1]
            v == cSet[2]
            fits == IF Field(cL, f).ty = "i16" THEN v \in -32768 .. 32767
                    ELSE v \in 0 .. Pow2(Field(cL, f).bits) - 1
        IN  /\ \A g \in FieldNames(cL) \ {f} : cLay[g] = cPrev[g]
            /\ fits => field_get(cL, cLay, f) = v

C5_Witness ==
    /\ cKind = "layout"
    /\ cL = "CfgRegA"
    /\ cPc = <<"from_bits", "set", "into_bits", "from_bits">>
    /\ cIn = 255
    /\ cSet = <<"odr", 2>>
    /\ cLay.odr = 2
    /\ cLay.md = 3
    /\ cLay.comp_temp_en = 1

\* C9: defaults apply only to a layout built by new(): a fresh CfgRegA has
\* md = 0b11 and every other field 0, a fresh IntCtrlReg has xien = yien =
\* zien = 1 and every other field 0; a layout decoded from a byte has every
\* field equal to the corresponding bits of that byte (0x00 gives md = 0).
C9_Defaults ==
    /\ (cKind = "layout" /\ cPc = <<"new">> /\ cL = "CfgRegA") =>
          /\ cLay.md = 3
          /\ \A g \in FieldNames(cL) \ {"md"} : cLay[g] = 0
    /\ (cKind = "layout" /\ cPc = <<"new">> /\ cL = "IntCtrlReg") =>
          /\ cLay.xien = 1 /\ cLay.yien = 1 /\ cLay.zien = 1
          /\ \A g \in FieldNames(cL) \ {"xien", "yien", "zien"} : cLay[g] = 0
    /\ (cKind = "layout" /\ cPc = <<"from_bits">>) =>
          /\ \A g \in FieldNames(cL) :
                cLay[g] = (cIn \div Pow2(Offset(cL, order, g))) % Pow2(Field(cL, g).bits)
          /\ (cL = "CfgRegA" /\ order = "Lsb") => cLay.md = cIn % 4
          /\ (cL = "CfgRegA" /\ order = "Msb") => cLay.md = cIn \div 64
          /\ (cL = "IntCtrlReg" /\ order = "Lsb") => cLay.xien = cIn \div 128
          /\ (cIn = 0) => \A g \in FieldNames(cL) : cLay[g] = 0

C9_Witness ==
    /\ cKind = "layout"
    /\ cL = "CfgRegA"
    /\ cPc = <<"from_bits">>
    /\ cIn = 0
    /\ cLay.md = 0

\* the field and value of an over-width set (u8 value with a bit outside the width)
OverWidthSet ==
    /\ cKind = "layout"
    /\ Len(cPc) >= 2
    /\ cPc[2] \in {"set", "panic"}
    /\ Field(cL, cSet[1]).ty = "u8"
    /\ cSet[2] >= Pow2(Field(cL, cSet[1]).bits)

\* C10 as stated: setting a field to a value wider than its width (odr := 5)
\* silently truncates to the low bits (odr = 1); the operation neither fails
\* nor panics, and no bit of another field of the encoded byte is altered.
C10_TruncatesNeverPanics ==
    OverWidthSet =>
        /\ cPc[2] = "set"
        /\ cLay[cSet[1]] = cSet[2] % Pow2(Field(cL, cSet[1]).bits)
        /\ \A g \in FieldNames(cL) \ {cSet[1]} : cLay[g] = cPrev[g]

\* C10 amended: an over-width set never alters a bit of another field; in a
\* build without debug assertions it returns with the value truncated to the
\* field's low bits (odr := 5 gives odr = 1); in a build with debug assertions
\* the setter panics instead and the layout is left as it was.
C10_TruncatesOrDebugPanics ==
    OverWidthSet =>
        LET f == cSet[1]
            w == Field(cL, f).bits
            off == Offset(cL, order, f)
        IN  /\ (cPc[2] = "panic") <=> debug
            /\ (cPc[2] = "panic") => cLay = cPrev
            /\ (cPc[2] = "set") => cLay[f] = cSet[2] % Pow2(w)
            /\ \A g \in FieldNames(cL) \ {f} : cLay[g] = cPrev[g]
            /\ (cPc = <<"from_bits", "set", "into_bits">>) =>
                  /\ Outside(cOut, off, w) = Outside(cIn, off, w)
                  /\ (cOut \div Pow2(off)) % Pow2(w) = cSet[2] % Pow2(w)
                  /\ cOut \in Byte

C10_Witness ==
    /\ cKind = "layout"
    /\ cL = "CfgRegA"
    /\ ~debug
    /\ order = "Lsb"
    /\ cPc = <<"from_bits", "set", "into_bits">>
    /\ cIn = 255
    /\ cSet = <<"odr", 5>>
    /\ cLay.odr = 1
    /\ cOut = 247


\* declared discriminants of the enumerated types
C3_Codes ==
    [ Md |-> {0, 1, 2}, Odr |-> {0, 1, 2, 3}, Lp |-> {0, 1}, Lpf |-> {0, 1},
      SetRst |-> {0, 1, 2}, Ble |-> {0, 1}, IntOnDataOff |-> {0, 1}, I2cDis |-> {0, 1} ]

C3_Decoded(E, code, res) ==
    IF code \in C3_Codes[E]
    THEN res.kind = "Ok" /\ Enum(E)[res.val] = code
    ELSE res.kind = "Err" /\ res.err.type = "Decode"

\* C3: for every enumerated type, variant -> code -> decode returns the same
\* variant; decoding a code that is not a declared one (3 for Md, 3 for
\* SetRst) fails with a decode error and never yields a default variant,
\* also when a getter decodes such a bit pattern read from a register.
C3_EnumDecode ==
    /\ (cKind = "enum_variant" /\ cPc = <<"as_u8", "try_from">>) =>
          cOut = [kind |-> "Ok", val |-> cIn]
    /\ (cKind = "enum_code" /\ cPc = <<"try_from">>) => C3_Decoded(cL, cIn, cOut)
    /\ (cKind = "layout" /\ cPc = <<"from_bits", "get_enum">>) =>
          LET f == cSet[1]
              raw == (cIn \div Pow2(Offset(cL, order, f))) % Pow2(Field(cL, f).bits)
          IN  C3_Decoded(cSet[2], raw, cOut)

C3_Witness ==
    /\ cKind = "layout"
    /\ cL = "CfgRegA"
    /\ order = "Lsb"
    /\ cPc = <<"from_bits", "get_enum">>
    /\ cIn = 3
    /\ cSet = <<"md", "Md">>
    /\ cOut.kind = "Err"

(***************************************************************************)
(* Claims about the facade (checked under SpecCall and Spec).              *)
(***************************************************************************)
\* address, bit offset (least significant bit first) and width of the field
\* each read-modify-write setter targets
C1_Target ==
    [ data_rate_set         |-> <<96, 2, 2>>,
      operating_mode_set    |-> <<96, 0, 2>>,
      set_rst_mode_set      |-> <<97, 1, 2>>,
      block_data_update_set |-> <<98, 4, 1>>,
      offset_temp_comp_set  |-> <<96, 7, 1>>,
      self_test_set         |-> <<98, 1, 1>>,
      reset_set             |-> <<96, 5, 1>> ]

\* the write of a read-modify-write setter succeeds in this step
RmwWritten == pc = "write" /\ pc' = "done" /\ op \in RmwOps /\ result'.kind = "Ok"

\* C1: for every read-modify-write setter, every prior register byte and
\* every argument: when the setter succeeds the register byte differs from
\* the byte it read only in the targeted field's bits (read-only / not-used
\* bits included), the field holds the argument, and no other register is
\* written.
C1_RmwFrame ==
    [][ /\ (pc = "read" /\ pc' = "write") => buf' = <<dev[C1_Target[op][1]]>>
        /\ RmwWritten =>
              LET a   == C1_Target[op][1]
                  w   == C1_Target[op][3]
                  off == IF order = "Lsb" THEN C1_Target[op][2]
                                          ELSE 8 - C1_Target[op][2] - w
              IN  /\ \A x \in Addrs \ {a} : dev'[x] = dev[x]
                  /\ Outside(dev'[a], off, w) = Outside(buf[1], off, w)
                  /\ (dev'[a] \div Pow2(off)) % Pow2(w) = ArgCode(op, arg)
      ]_vars

\* block_data_update_set(1) written over a CfgRegC byte with self_test and
\* the not-used bits set
C1_Witness ==
    /\ pc = "done"
    /\ op = "block_data_update_set"
    /\ arg = 1
    /\ order = "Lsb"
    /\ result.kind = "Ok"
    /\ buf = <<134>>
    /\ dev[98] = 150

\* the bus transactions each facade operation issues: <<direction, address, bytes>>
C6_Expected ==
    [ data_rate_set         |-> << <<"R", 96, 1>>, <<"W", 96, 1>> >>,
      operating_mode_set    |-> << <<"R", 96, 1>>, <<"W", 96, 1>> >>,
      set_rst_mode_set      |-> << <<"R", 97, 1>>, <<"W", 97, 1>> >>,
      block_data_update_set |-> << <<"R", 98, 1>>, <<"W", 98, 1>> >>,
      offset_temp_comp_set  |-> << <<"R", 96, 1>>, <<"W", 96, 1>> >>,
      self_test_set         |-> << <<"R", 98, 1>>, <<"W", 98, 1>> >>,
      reset_set             |-> << <<"R", 96, 1>>, <<"W", 96, 1>> >>,
      data_rate_get         |-> << <<"R", 96, 1>> >>,
      operating_mode_get    |-> << <<"R", 96, 1>> >>,
      set_rst_mode_get      |-> << <<"R", 97, 1>> >>,
      block_data_update_get |-> << <<"R", 98, 1>> >>,
      offset_temp_comp_get  |-> << <<"R", 96, 1>> >>,
      self_test_get         |-> << <<"R", 98, 1>> >>,
      reset_get             |-> << <<"R", 96, 1>> >>,
      mag_data_ready_get    |-> << <<"R", 103, 1>> >>,
      temperature_raw_get   |-> << <<"R", 110, 2>> >>,
      device_id_get         |-> << <<"R", 79, 1>> >>,
      magnetic_raw_get      |-> << <<"R", 104, 6>> >>,
      mag_user_offset_get   |-> << <<"R", 69, 6>> >>,
      mag_user_offset_set   |-> << <<"W", 69, 6>> >> ]

BusShape == [i \in 1 .. Len(bus) |-> <<bus[i].rw, bus[i].addr, bus[i].len>>]

NoBusError == \A i \in 1 .. Len(bus) : bus[i].err = "-"

\* C6: a facade operation on a single register issues exactly one bus read,
\* one on a multi-register group exactly one burst (6 bytes for a three-axis
\* group, 2 for temperature), and a read-modify-write setter exactly one read
\* followed by one write of the same register, nothing in between.
C6_BusTransactions ==
    /\ (pc = "done" /\ op # "flush_samples" /\ NoBusError) => BusShape = C6_Expected[op]
    /\ (pc \in {"read", "write"} /\ op \in RmwOps) =>
          BusShape = SubSeq(C6_Expected[op], 1, IF pc = "read" THEN 0 ELSE 1)

C6_Witness ==
    /\ pc = "done"
    /\ op = "temperature_raw_get"
    /\ result = Ok(-16)
    /\ BusShape = << <<"R", 110, 2>> >>

\* C7: when the transport fails during the read or the write of an operation
\* the operation returns an error wrapping exactly that transport error; it
\* never returns Ok after a failed transaction and never issues the failed
\* transaction again.
C7_TransportErrors ==
    /\ \A i \in 1 .. Len(bus) :
          bus[i].err # "-" =>
              /\ i = Len(bus)
              /\ pc = "done"
              /\ result.kind = "Err"
              /\ result.err.type = "Bus"
              /\ result.err.e = bus[i].err
    /\ \A i, j \in 1 .. Len(bus) :
          (i < j) => <<bus[i].rw, bus[i].addr>> # <<bus[j].rw, bus[j].addr>>
    /\ (pc = "done" /\ result.kind = "Ok") => NoBusError

\* flush_samples: the status read succeeds, the burst read of the sample fails
C7_Witness ==
    /\ pc = "done"
    /\ op = "flush_samples"
    /\ Len(bus) = 2
    /\ bus[1].err = "-"
    /\ bus[2].err = "Timeout"
    /\ result = ErrBus("Timeout")

\* the soft_rst bit of a CfgRegA byte as the driver build reads it
C8_SoftRstBit(b) == IF order = "Lsb" THEN (b \div 32) % 2 ELSE (b \div 4) % 2

\* C8: reset_get reports the soft_rst bit the register holds at the moment it
\* is read (bit 5 of the byte at 0x60 with least-significant-bit-first
\* layouts): 1 after a successful reset_set(1) for as long as the hardware has
\* not cleared the bit, 0 once it has; nothing is cached.
C8_ResetGet ==
    [][ /\ (pc = "read" /\ pc' = "done" /\ op = "reset_get" /\ result'.kind = "Ok") =>
              /\ result'.val = C8_SoftRstBit(dev[96])
              /\ (order = "Lsb") => result'.val = (dev[96] \div 32) % 2
        /\ (RmwWritten /\ op = "reset_set" /\ arg = 1) => C8_SoftRstBit(dev'[96]) = 1
        /\ (HwSoftRst(dev) = 1 /\ dev'[96] # dev[96] /\ pc' = pc) => HwSoftRst(dev') = 0
      ]_vars

\* reset_set(1), then reset_get = 1, then the hardware clears the bit, then reset_get = 0
C8_Witness ==
    /\ rstTrack = "seen0"
    /\ pc = "done"
    /\ op = "reset_get"
    /\ result = Ok(0)
    /\ dev[96] = 3

\* low and high byte of the two's-complement 16-bit pattern of v
C11_Lo(v) == v % 256
C11_Hi(v) == (v \div 256) % 256

\* the six offset registers, 0x45 .. 0x4A
C11_OffsetRegs == 69 .. 74

\* C11: writing the hard-iron offsets (x, y, z) issues one 6-byte burst write
\* at OffsetXRegL (0x45) with the bytes [x_lo, x_hi, y_lo, y_hi, z_lo, z_hi]
\* and touches no other register; an offset read is one 6-byte burst read at
\* 0x45 returning, per axis, the signed 16-bit value whose low byte is at the
\* lower address, so on a device that stores the written bytes it returns
\* exactly (x, y, z); nothing but an offset write changes the offset registers.
C11_OffsetRoundTrip ==
    [][ /\ (pc = "write" /\ pc' = "done" /\ op = "mag_user_offset_set"
                /\ result'.kind = "Ok") =>
              /\ bus' = << Xfer("W", 69, 6, "-") >>
              /\ \A a \in 1 .. 3 :
                    /\ dev'[67 + 2 * a] = C11_Lo(arg[a])
                    /\ dev'[68 + 2 * a] = C11_Hi(arg[a])
              /\ \A x \in Addrs \ C11_OffsetRegs : dev'[x] = dev[x]
        /\ (pc = "read" /\ pc' = "done" /\ op = "mag_user_offset_get"
                /\ result'.kind = "Ok") =>
              /\ bus' = << Xfer("R", 69, 6, "-") >>
              /\ \A a \in 1 .. 3 :
                    /\ result'.val[a] \in -32768 .. 32767
                    /\ C11_Lo(result'.val[a]) = dev[67 + 2 * a]
                    /\ C11_Hi(result'.val[a]) = dev[68 + 2 * a]
        /\ (\E x \in C11_OffsetRegs : dev'[x] # dev[x]) =>
              (pc = "write" /\ op = "mag_user_offset_set")
      ]_vars

\* mag_user_offset_set(-32768, 32767, -1), then mag_user_offset_get returns the same
C11_Witness ==
    /\ pc = "done"
    /\ op = "mag_user_offset_get"
    /\ result = Ok(<<-32768, 32767, -1>>)
    /\ [i \in 1 .. 6 |-> dev[68 + i]] = <<0, 128, 255, 127, 255, 255>>
    /\ left = MaxCalls - 2

\* the registers of the 16-bit values, <<low byte, high byte>>
C12_Pairs ==
    { <<"OffsetXRegL", "OffsetXRegH">>, <<"OffsetYRegL", "OffsetYRegH">>,
      <<"OffsetZRegL", "OffsetZRegH">>, <<"IntThsLReg", "IntThsHReg">>,
      <<"OutxLReg", "OutxHReg">>,       <<"OutyLReg", "OutyHReg">>,
      <<"OutzLReg", "OutzHReg">>,       <<"TempOutLReg", "TempOutHReg">> }

\* the registers of the three-axis groups in burst order
C12_OffsetGroup ==
    << "OffsetXRegL", "OffsetXRegH", "OffsetYRegL", "OffsetYRegH", "OffsetZRegL", "OffsetZRegH" >>
C12_OutGroup ==
    << "OutxLReg", "OutxHReg", "OutyLReg", "OutyHReg", "OutzLReg", "OutzHReg" >>

\* the i-th address of an auto-increment burst from address a is register names[i]
C12_BurstCovers(a, names) == \A i \in 1 .. Len(names) : a + i - 1 = Reg[names[i]]

\* the address map: the Reg values are pairwise distinct; offsets are
\* 0x45-0x4A, identity 0x4F, configuration / status 0x60-0x67, output and
\* temperature 0x68-0x6F; every high-byte address is its low-byte address
\* plus 1; X, Y, Z pairs are adjacent in that order, so that a 6-byte burst
\* from OffsetXRegL or OutxLReg covers exactly that group's six registers and
\* a 2-byte burst from TempOutLReg or IntThsLReg exactly that pair
C12_Map ==
    /\ \A m, n \in RegNames : (m # n) => (Reg[m] # Reg[n])
    /\ Cardinality(Addrs) = 23
    /\ C12_BurstCovers(69, C12_OffsetGroup)
    /\ Reg.WhoAmI = 79
    /\ C12_BurstCovers(96, << "CfgRegA", "CfgRegB", "CfgRegC", "IntCtrlReg", "IntSourceReg",
                              "IntThsLReg", "IntThsHReg", "StatusReg" >>)
    /\ C12_BurstCovers(104, C12_OutGroup \o << "TempOutLReg", "TempOutHReg" >>)
    /\ \A p \in C12_Pairs : Reg[p[2]] = Reg[p[1]] + 1
    /\ C12_BurstCovers(Reg.OffsetXRegL, C12_OffsetGroup)
    /\ C12_BurstCovers(Reg.OutxLReg, C12_OutGroup)
    /\ C12_BurstCovers(Reg.TempOutLReg, << "TempOutLReg", "TempOutHReg" >>)
    /\ C12_BurstCovers(Reg.IntThsLReg, << "IntThsLReg", "IntThsHReg" >>)

\* C12: the Reg values are pairwise distinct, lie in the documented ranges,
\* every high-byte address is its low-byte address plus 1 and the X, Y, Z
\* pairs are adjacent in that order (C12_Map); every burst the driver issues
\* is a 6-byte burst from OffsetXRegL or OutxLReg covering exactly that
\* group's six registers, or a 2-byte burst covering exactly one pair, and
\* the values it returns are the pairs read low byte first.
C12_AddressMap ==
    /\ C12_Map
    /\ \A i \in 1 .. Len(bus) :
          /\ (bus[i].len = 6) =>
                \/ bus[i].addr = 69 /\ C12_BurstCovers(bus[i].addr, C12_OffsetGroup)
                \/ bus[i].addr = 104 /\ C12_BurstCovers(bus[i].addr, C12_OutGroup)
          /\ (bus[i].len = 2) =>
                /\ bus[i].addr = 110
                /\ C12_BurstCovers(bus[i].addr, << "TempOutLReg", "TempOutHReg" >>)
          /\ bus[i].len \in {1, 2, 6}
          /\ bus[i].addr \in Addrs
    /\ (pc = "done" /\ op \in {"magnetic_raw_get", "mag_user_offset_get"}
            /\ result.kind = "Ok") =>
          \A a \in 1 .. 3 :
             /\ buf[2 * a - 1] + 256 * buf[2 * a] = U16(result.val[a])

\* a sample latched by the hardware is read by one burst over OutxLReg .. OutzHReg
C12_Witness ==
    /\ pc = "done"
    /\ op = "magnetic_raw_get"
    /\ bus = << Xfer("R", 104, 6, "-") >>
    /\ buf = <<16, 0, 32, 0, 240, 255>>
    /\ buf = << dev[Reg.OutxLReg], dev[Reg.OutxHReg], dev[Reg.OutyLReg],
                dev[Reg.OutyHReg], dev[Reg.OutzLReg], dev[Reg.OutzHReg] >>
    /\ result = Ok(<<16, 32, -16>>)

\* the md field of a CfgRegA byte as the driver build reads it
C13_Md(b) == IF order = "Lsb" THEN b % 4 ELSE b \div 64

\* the code each operating mode stands for
C13_Code == [ContinuousMode |-> 0, SingleTrigger |-> 1, PowerDown |-> 2]

C14_DeviceIdRaw ==
    /\ (op = "device_id_get" /\ pc = "read") => bus = <<>>
    /\ (op = "device_id_get" /\ pc = "done") =>
          /\ Len(bus) = 1
          /\ <<bus[1].rw, bus[1].addr, bus[1].len>> = <<"R", 79, 1>>
          /\ (bus[1].err = "-") =>
                /\ result.kind = "Ok"
                /\ result.val \in 0 .. 255
                /\ result.val = dev[79]
                /\ buf = <<dev[79]>>
          /\ (result.kind = "Err") =>
                /\ result.err.type = "Bus"
                /\ result.err.e = bus[1].err
    /\ (op = "device_id_get") => pc \in {"read", "done"}

\* the identity register delivers 255, not the expected identity: Ok(255)
C14_Witness ==
    /\ pc = "done"
    /\ op = "device_id_get"
    /\ dev[79] = 255
    /\ dev[79] # IIS2MDC_ID
    /\ result = Ok(255)

\* the byte b with the w bits at offset off replaced by v
C15_Replace(b, off, w, v) == b - ((b \div Pow2(off)) % Pow2(w)) * Pow2(off) + v * Pow2(off)

\* the handle between two calls
C15_HandleCleared == <<pc, op, arg, buf, result, bus>>' = <<"idle", "none", 0, <<>>, NoResult, <<>>>>

\* C15: when the read of a read-modify-write setter fails, the setter returns
\* that error without issuing a write, so no device register changes; on
\* return nothing of the failed call is left in the handle, and a later call
\* of the same setter with a working bus reads the register again and writes
\* exactly what it would have written had the failed call never been made:
\* the byte it read with only the target field replaced.
C15_FailedReadNoTrace ==
    [][ /\ (pc = "read" /\ op \in RmwOps /\ pc' = "done") =>
              /\ result'.kind = "Err"
              /\ result'.err.type = "Bus"
              /\ bus' = << Xfer("R", C1_Target[op][1], 1, result'.err.e) >>
              /\ failed' = op
              /\ dev' = dev
        /\ (pc = "done" /\ op \in RmwOps /\ bus[1].err # "-") =>
              /\ pc' \in {"done", "idle"}
              /\ bus' \in {bus, <<>>}
              /\ (pc' = "idle") => (C15_HandleCleared /\ dev' = dev)
        /\ (pc = "idle" /\ pc' # "idle") =>
              /\ <<buf', bus', result'>> = <<<<>>, <<>>, NoResult>>
              /\ dev' = dev
        /\ (pc = "read" /\ pc' = "write" /\ failed = op) =>
              /\ bus' = << Xfer("R", C1_Target[op][1], 1, "-") >>
              /\ buf' = << dev[C1_Target[op][1]] >>
        /\ (RmwWritten /\ failed = op) =>
              LET a   == C1_Target[op][1]
                  w   == C1_Target[op][3]
                  off == IF order = "Lsb" THEN C1_Target[op][2]
                                          ELSE 8 - C1_Target[op][2] - w
              IN  dev' = [dev EXCEPT ![a] = C15_Replace(buf[1], off, w, ArgCode(op, arg))]
      ]_vars

\* block_data_update_set fails in its read; called again it sets bdu
C15_Witness ==
    /\ pc = "done"
    /\ op = "block_data_update_set"
    /\ failed = "block_data_update_set"
    /\ arg = 1
    /\ order = "Lsb"
    /\ result = Ok("unit")
    /\ buf = <<0>>
    /\ dev[98] = 16
    /\ left = MaxCalls - 2

(***************************************************************************)
(* Claims about the example programs (checked under SpecExample).          *)
(***************************************************************************)
\* the configuration writes of the examples
C16_ConfigWrites ==
    { "reset_set", "block_data_update_set", "data_rate_set", "set_rst_mode_set",
      "offset_temp_comp_set", "operating_mode_set", "self_test_set" }

\* C16: in the example programs no configuration write (reset_set,
\* block_data_update_set, data_rate_set, set_rst_mode_set,
\* offset_temp_comp_set, operating_mode_set, self_test_set) reaches the sensor
\* unless the preceding device_id_get returned Ok with IIS2MDC_ID, both when
\* the identity byte mismatches and when device_id_get returned a transport
\* error.
C16_IdGate ==
    (op \in C16_ConfigWrites /\ bus # <<>>) =>
        (id.kind = "Ok" /\ id.val = IIS2MDC_ID)

\* C17: in every pass of the self-test example's outer loop media and
\* mediast are 0 on every axis when their summation over the 50 samples
\* begins.
C17_AccumulatorsZero ==
    /\ (xpc = "sum_media") => (\A a \in 1 .. 3 : media[a][1] = 0)
    /\ (xpc = "sum_mediast") => (\A a \in 1 .. 3 : mediast[a][1] = 0)

=============================================================================
